---- MODULE Spec2Model ----
(***************************************************************************)
(* State-machine model of the NYC congestion audit: ingest.py (download    *)
(* loop, schema unification), pipeline.py (feature engineering, ghost      *)
(* audit, the four aggregations, the weather join and the five CSV writes) *)
(* and the load_data entry of dashboard.py.                                *)
(*                                                                         *)
(* Polars semantics that the model keeps:                                  *)
(*   - a column value may be null; comparisons and arithmetic on null give *)
(*     null, & | ~ are Kleene operators, filter keeps a row only when the  *)
(*     predicate is true (a null predicate drops the row);                 *)
(*   - Float64 division by zero gives inf, -inf or NaN and never raises;   *)
(*     comparisons use the total order in which NaN is the greatest value; *)
(*   - Duration.total_minutes() is an Int64: whole minutes, truncated      *)
(*     towards zero;                                                       *)
(*   - group_by and sort do not fix the order of equal keys.               *)
(***************************************************************************)
EXTENDS Integers, Sequences, FiniteSets, TLC

VARIABLES
    disk,            \* ./data: [Files -> {"absent", "partial", "complete"}]
    run,             \* number of the current run of the pipeline process
    pc,              \* position of the pipeline process
    month,           \* loop variable of the download loop
    returned,        \* what download_file returned for each file in this run
    yellow_files,    \* ingest_and_unify's yellow_files list
    green_files,     \* ingest_and_unify's green_files list
    scan_err,        \* the lazy plan holds a source that cannot be read
    q,               \* the relation q of run_pipeline (a sequence of rows)
    ghost_stats,     \* q.filter(ghost_criteria).group_by("VendorID").len()
    q_clean,         \* q.filter(~ghost_criteria)
    leakage_agg,     \* sequence of rows, sorted, at most 10
    velocity_agg,    \* set of rows (order unspecified)
    economics_agg,   \* set of rows (order unspecified)
    daily_counts,    \* set of rows (order unspecified)
    weather_df,      \* fetch_weather's frame (a set of rows)
    outputs,         \* ./outputs: [Tables -> Null or Some(table)]
    failure,         \* what made run_pipeline raise ("" when nothing did)
    cache,           \* st.cache_data entry of load_data
    view             \* what the dashboard script showed on its last run

vars == <<disk, run, pc, month, returned, yellow_files, green_files, scan_err,
          q, ghost_stats, q_clean, leakage_agg, velocity_agg, economics_agg,
          daily_counts, weather_df, outputs, failure, cache, view>>

ingestVars == <<disk, run, month, returned, yellow_files, green_files, scan_err>>
planVars == <<q, ghost_stats, q_clean, leakage_agg, velocity_agg, economics_agg,
              daily_counts, weather_df>>
dashVars == <<cache, view>>

-----------------------------------------------------------------------------
(* Nullable column values: Null, or Some(v).                               *)

Null == <<>>
Some(v) == <<v>>
IsNull(x) == x = <<>>
Val(x) == x[1]

(* Kleene logic of polars boolean expressions: "T", "F", "N" (null).       *)

B3(b) == IF b THEN "T" ELSE "F"
And3(a, b) == IF a = "F" \/ b = "F" THEN "F"
              ELSE IF a = "T" /\ b = "T" THEN "T" ELSE "N"
Or3(a, b) == IF a = "T" \/ b = "T" THEN "T"
             ELSE IF a = "F" /\ b = "F" THEN "F" ELSE "N"
Not3(a) == IF a = "T" THEN "F" ELSE IF a = "F" THEN "T" ELSE "N"

(* Comparisons of a nullable integer column with a literal.                *)

GtLit(x, c) == IF IsNull(x) THEN "N" ELSE B3(Val(x) > c)
LtLit(x, c) == IF IsNull(x) THEN "N" ELSE B3(Val(x) < c)
EqLit(x, c) == IF IsNull(x) THEN "N" ELSE B3(Val(x) = c)

(* Float64 values: a finite rational n/d (d > 0), inf, -inf or NaN.        *)

Fin(n, d) == [k |-> "fin", n |-> n, d |-> d]
NaN == [k |-> "nan", n |-> 0, d |-> 1]
PosInf == [k |-> "inf", n |-> 0, d |-> 1]
NegInf == [k |-> "ninf", n |-> 0, d |-> 1]
IsFinite(x) == x.k = "fin"

Sign(n) == IF n > 0 THEN 1 ELSE IF n < 0 THEN -1 ELSE 0
Abs(n) == IF n < 0 THEN -n ELSE n

(* IEEE-754 division of two finite values.                                 *)
FloatDiv(a, b) ==
    IF b.n = 0
    THEN IF a.n > 0 THEN PosInf ELSE IF a.n < 0 THEN NegInf ELSE NaN
    ELSE Fin(Sign(b.n) * a.n * b.d, a.d * Abs(b.n))

(* IEEE-754 addition.                                                      *)
FloatAdd(a, b) ==
    IF a.k = "nan" \/ b.k = "nan" THEN NaN
    ELSE IF a.k = "inf" THEN (IF b.k = "ninf" THEN NaN ELSE PosInf)
    ELSE IF a.k = "ninf" THEN (IF b.k = "inf" THEN NaN ELSE NegInf)
    ELSE IF b.k # "fin" THEN b
    ELSE Fin(a.n * b.d + b.n * a.d, a.d * b.d)

(* x > c for a Float64 x and an integer literal c, in polars' total order: *)
(* NaN compares greater than every non-NaN value.                          *)
FloatGtLit(x, c) ==
    CASE x.k = "nan" -> TRUE
      [] x.k = "inf" -> TRUE
      [] x.k = "ninf" -> FALSE
      [] OTHER -> x.n > c * x.d

Min(a, b) == IF a < b THEN a ELSE b

-----------------------------------------------------------------------------
(* Configuration of pipeline.py and ingest.py.                             *)

CONGESTION_ZONES ==
    {12, 13, 43, 45, 48, 50, 68, 79, 87, 88, 90, 100, 107, 113, 114, 116, 120,
     125, 137, 140, 141, 142, 143, 144, 148, 151, 158, 161, 162, 163, 164, 166,
     170, 186, 209, 211, 224, 229, 230, 231, 232, 233, 234, 236, 237, 238, 239,
     243, 244, 246, 249, 261, 262, 263}

Tables == {"ghost_audit", "leakage_audit", "velocity_heatmap", "economics",
           "weather_elasticity"}

(* Calendar.  A timestamp is a number of seconds since 2025-01-01 00:00;   *)
(* a date is a day number, 1 for 2025-01-01 and 365 for 2025-12-31.        *)

DaysIn2025 == 365
MonthStarts == <<1, 32, 60, 91, 121, 152, 182, 213, 244, 274, 305, 335>>

DateOf(t) == (t \div 86400) + 1
HourOf(t) == (t % 86400) \div 3600
\* ISO weekday, Monday = 1; 2025-01-01 is a Wednesday.
WeekdayOf(t) == ((DateOf(t) + 1) % 7) + 1
\* First day of the month of day d (2024-12-01 is day -30, 2026-01-01 day 366).
MonthTruncate(d) ==
    IF d < 1 THEN -30
    ELSE IF d > DaysIn2025 THEN DaysIn2025 + 1
    ELSE LET S == {MonthStarts[i] : i \in DOMAIN MonthStarts}
         IN  CHOOSE s \in S : s <= d /\ \A s2 \in S : s2 <= d => s2 <= s

(* Truncating integer division, as Rust's / on i64.                        *)
TruncDiv(a, b) == IF a >= 0 THEN a \div b ELSE -((-a) \div b)

-----------------------------------------------------------------------------
(* Rows of the unified relation (ingest.py, the two select lists).         *)

Row(pt, dt, pu, do, dist, fare, total, sur, vendor) ==
    [pickup_time |-> pt, dropoff_time |-> dt, pickup_loc |-> pu,
     dropoff_loc |-> do, trip_distance |-> dist, fare |-> fare,
     total_amount |-> total, congestion_surcharge |-> sur, VendorID |-> vendor]

(* Rows of a matching index set, in the relation's order.                  *)
Take(rel, I) ==
    LET F[i \in 0..Len(rel)] ==
            IF i = 0 THEN <<>>
            ELSE IF i \in I THEN Append(F[i - 1], rel[i]) ELSE F[i - 1]
    IN  F[Len(rel)]

-----------------------------------------------------------------------------
(* 2. Feature engineering.                                                 *)

\* (dropoff_time - pickup_time).dt.total_minutes()
duration_min(r) ==
    IF IsNull(r.dropoff_time) \/ IsNull(r.pickup_time) THEN Null
    ELSE Some(TruncDiv(Val(r.dropoff_time) - Val(r.pickup_time), 60))

WithFeatures(r) ==
    r @@ [duration_min |-> duration_min(r),
          date |-> IF IsNull(r.pickup_time) THEN Null
                   ELSE Some(DateOf(Val(r.pickup_time))),
          hour |-> IF IsNull(r.pickup_time) THEN Null
                   ELSE Some(HourOf(Val(r.pickup_time))),
          weekday |-> IF IsNull(r.pickup_time) THEN Null
                      ELSE Some(WeekdayOf(Val(r.pickup_time)))]

\* trip_distance / (duration_min / 60)
speed_mph(r) ==
    IF IsNull(r.trip_distance) \/ IsNull(r.duration_min) THEN Null
    ELSE Some(FloatDiv(Fin(Val(r.trip_distance), 1),
                       FloatDiv(Fin(Val(r.duration_min), 1), Fin(60, 1))))

WithSpeed(r) == r @@ [speed_mph |-> speed_mph(r)]

-----------------------------------------------------------------------------
(* 3. The ghost trip audit.                                                *)

SpeedOver65(r) ==
    IF IsNull(r.speed_mph) THEN "N" ELSE B3(FloatGtLit(Val(r.speed_mph), 65))

ghost_criteria(r) ==
    Or3(Or3(SpeedOver65(r),
            And3(LtLit(r.duration_min, 1), GtLit(r.fare, 20))),
        And3(EqLit(r.trip_distance, 0), GtLit(r.fare, 0)))

(* LazyFrame.filter keeps the rows whose predicate is true: the indices of *)
(* q.filter(ghost_criteria) and of q.filter(~ghost_criteria).              *)
GhostIdx(rel) == {i \in DOMAIN rel : ghost_criteria(rel[i]) = "T"}
CleanIdx(rel) == {i \in DOMAIN rel : Not3(ghost_criteria(rel[i])) = "T"}

\* group_by("VendorID").len()
GroupLen(rel) ==
    {[VendorID |-> v, len |-> Cardinality({i \in DOMAIN rel : rel[i].VendorID = v})]
        : v \in {rel[i].VendorID : i \in DOMAIN rel}}

-----------------------------------------------------------------------------
(* 4. Aggregations over q_clean.                                           *)

IsIn(x, S) == IF IsNull(x) THEN "N" ELSE B3(Val(x) \in S)

\* Sum and count of the non-null values of a column over an index set.
NonNull(col, I) == {i \in I : ~IsNull(col[i])}
SumInt(col, I) ==
    LET F[i \in 0..Len(col)] ==
            IF i = 0 THEN 0
            ELSE IF i \in NonNull(col, I) THEN F[i - 1] + Val(col[i]) ELSE F[i - 1]
    IN  F[Len(col)]
SumFloat(col, I) ==
    LET F[i \in 0..Len(col)] ==
            IF i = 0 THEN Fin(0, 1)
            ELSE IF i \in NonNull(col, I) THEN FloatAdd(F[i - 1], Val(col[i]))
            ELSE F[i - 1]
    IN  F[Len(col)]
\* Expr.mean(): null when every value is null.
MeanInt(col, I) ==
    IF NonNull(col, I) = {} THEN Null
    ELSE Some(Fin(SumInt(col, I), Cardinality(NonNull(col, I))))
MeanFloat(col, I) ==
    IF NonNull(col, I) = {} THEN Null
    ELSE LET s == SumFloat(col, I)
         IN  Some(IF IsFinite(s) THEN Fin(s.n, s.d * Cardinality(NonNull(col, I)))
                  ELSE s)

(* A. Leakage. *)

LeakLimit == 10

LeakageIdx(rel) ==
    {i \in DOMAIN rel :
        And3(Not3(IsIn(rel[i].pickup_loc, CONGESTION_ZONES)),
             IsIn(rel[i].dropoff_loc, CONGESTION_ZONES)) = "T"}

\* group_by("pickup_loc").agg([len, (congestion_surcharge == 0).sum()])
LeakageGroups(rel) ==
    LET I == LeakageIdx(rel)
    IN  {[pickup_loc |-> p,
          total_trips |-> Cardinality({i \in I : rel[i].pickup_loc = p}),
          missing_surcharge_count |->
              Cardinality({i \in I : /\ rel[i].pickup_loc = p
                                     /\ EqLit(rel[i].congestion_surcharge, 0) = "T"})]
         : p \in {rel[i].pickup_loc : i \in I}}

(* The order in which group_by yields its groups, and in which sort leaves  *)
(* equal keys, is not fixed by polars: tie is a ranking of the pickup_locs  *)
(* that the run happened to produce.                                        *)
TieRank(tie, p) == IF tie % 2 = 0 THEN (p + tie) % 300 ELSE -((p + tie) % 300)

\* The sort without descending=True.
LeakBeforeAscending(g, h, tie) ==
    \/ g.missing_surcharge_count < h.missing_surcharge_count
    \/ /\ g.missing_surcharge_count = h.missing_surcharge_count
       /\ TieRank(tie, Val(g.pickup_loc)) <= TieRank(tie, Val(h.pickup_loc))

LeakBefore(g, h, tie) ==
    \/ g.missing_surcharge_count > h.missing_surcharge_count
    \/ /\ g.missing_surcharge_count = h.missing_surcharge_count
       /\ TieRank(tie, Val(g.pickup_loc)) <= TieRank(tie, Val(h.pickup_loc))

\* sort("missing_surcharge_count", descending=True)
RECURSIVE SortDescending(_, _)
SortDescending(G, tie) ==
    IF G = {} THEN <<>>
    ELSE LET g == CHOOSE x \in G : \A h \in G : LeakBefore(x, h, tie)
         IN  <<g>> \o SortDescending(G \ {g}, tie)

\* limit(n)
Limit(s, n) == SubSeq(s, 1, Min(n, Len(s)))

LeakageAgg(rel, tie) == Limit(SortDescending(LeakageGroups(rel), tie), LeakLimit)

(* B. Velocity heatmap. *)

VelocityIdx(rel) ==
    {i \in DOMAIN rel : IsIn(rel[i].pickup_loc, CONGESTION_ZONES) = "T"}

VelocityAgg(rel) ==
    LET I == VelocityIdx(rel)
        speed == [i \in DOMAIN rel |-> rel[i].speed_mph]
    IN  {[weekday |-> k[1], hour |-> k[2],
          avg_speed |-> MeanFloat(speed, {i \in I : /\ rel[i].weekday = k[1]
                                                    /\ rel[i].hour = k[2]})]
         : k \in {<<rel[i].weekday, rel[i].hour>> : i \in I}}

(* C. Economics. *)

MonthOf(r) == IF IsNull(r.date) THEN Null ELSE Some(MonthTruncate(Val(r.date)))

TipAmount(r) ==
    IF IsNull(r.total_amount) \/ IsNull(r.fare) THEN Null
    ELSE Some(Val(r.total_amount) - Val(r.fare))

EconomicsAgg(rel) ==
    LET surcharge == [i \in DOMAIN rel |-> rel[i].congestion_surcharge]
        tip == [i \in DOMAIN rel |-> TipAmount(rel[i])]
    IN  {[month |-> m,
          avg_surcharge |-> MeanInt(surcharge, {i \in DOMAIN rel : MonthOf(rel[i]) = m}),
          avg_tip_amt |-> MeanInt(tip, {i \in DOMAIN rel : MonthOf(rel[i]) = m})]
         : m \in {MonthOf(rel[i]) : i \in DOMAIN rel}}

(* D. Daily trip counts. *)

DailyCounts(rel) ==
    {[date |-> d, trip_count |-> Cardinality({i \in DOMAIN rel : rel[i].date = d})]
        : d \in {rel[i].date : i \in DOMAIN rel}}

(* fetch_weather: one row per day of 2025; rain is the precipitation the   *)
(* archive returned, as a function of the day.                             *)
WeatherFrame(rain) ==
    {[date |-> Some(d), precipitation_mm |-> Some(rain[d])] : d \in 1..DaysIn2025}

\* The join with how="full": the dates of either side.
FullJoin(weather, trips) ==
    {[date |-> w.date, precipitation_mm |-> w.precipitation_mm,
      trip_count |-> t.trip_count]
        : <<w, t>> \in {p \in weather \X trips :
                            ~IsNull(p[1].date) /\ p[1].date = p[2].date}}
    \cup {[date |-> t.date, precipitation_mm |-> Null, trip_count |-> t.trip_count]
            : t \in {x \in trips : \A w \in weather : w.date # x.date}}
    \cup {[date |-> w.date, precipitation_mm |-> w.precipitation_mm, trip_count |-> 0]
            : w \in {x \in weather : \A t \in trips : t.date # x.date}}

\* weather_df.join(trips_df, on="date", how="inner"): null keys never match.
InnerJoin(weather, trips) ==
    {[date |-> w.date, precipitation_mm |-> w.precipitation_mm,
      trip_count |-> t.trip_count]
        : <<w, t>> \in {p \in weather \X trips :
                            ~IsNull(p[1].date) /\ p[1].date = p[2].date}}

-----------------------------------------------------------------------------
(* run_pipeline, after ingest_and_unify has returned q.  The frames are    *)
(* lazy: steps 2 to 4 only build plans and cannot fail; every table is     *)
(* computed by its collect() in step 5.                                    *)

MaxTie == 1

NoOutputs == [t \in Tables |-> Null]

FeatureEngineering ==
    /\ pc = "features"
    /\ q' = [i \in DOMAIN q |-> WithFeatures(q[i])]
    /\ pc' = "speed"
    /\ UNCHANGED <<ingestVars, ghost_stats, q_clean, leakage_agg, velocity_agg,
                   economics_agg, daily_counts, weather_df, outputs, failure,
                   dashVars>>

SpeedFeature ==
    /\ pc = "speed"
    /\ q' = [i \in DOMAIN q |-> WithSpeed(q[i])]
    /\ pc' = "ghost"
    /\ UNCHANGED <<ingestVars, ghost_stats, q_clean, leakage_agg, velocity_agg,
                   economics_agg, daily_counts, weather_df, outputs, failure,
                   dashVars>>

GhostAudit ==
    /\ pc = "ghost"
    /\ ghost_stats' = GroupLen(Take(q, GhostIdx(q)))
    /\ q_clean' = Take(q, CleanIdx(q))
    /\ pc' = "leakage"
    /\ UNCHANGED <<ingestVars, q, leakage_agg, velocity_agg, economics_agg,
                   daily_counts, weather_df, outputs, failure, dashVars>>

Leakage ==
    /\ pc = "leakage"
    /\ \E tie \in 0..MaxTie : leakage_agg' = LeakageAgg(q_clean, tie)
    /\ pc' = "velocity"
    /\ UNCHANGED <<ingestVars, q, ghost_stats, q_clean, velocity_agg,
                   economics_agg, daily_counts, weather_df, outputs, failure,
                   dashVars>>

Velocity ==
    /\ pc = "velocity"
    /\ velocity_agg' = VelocityAgg(q_clean)
    /\ pc' = "economics"
    /\ UNCHANGED <<ingestVars, q, ghost_stats, q_clean, leakage_agg,
                   economics_agg, daily_counts, weather_df, outputs, failure,
                   dashVars>>

Economics ==
    /\ pc = "economics"
    /\ economics_agg' = EconomicsAgg(q_clean)
    /\ pc' = "daily"
    /\ UNCHANGED <<ingestVars, q, ghost_stats, q_clean, leakage_agg,
                   velocity_agg, daily_counts, weather_df, outputs, failure,
                   dashVars>>

Daily ==
    /\ pc = "daily"
    /\ daily_counts' = DailyCounts(q_clean)
    /\ pc' = "w_ghost"
    /\ UNCHANGED <<ingestVars, q, ghost_stats, q_clean, leakage_agg,
                   velocity_agg, economics_agg, weather_df, outputs, failure,
                   dashVars>>

(* 5. Execute: collect() and write_csv(), one statement after the other,   *)
(* with no exception handler around any of them.                           *)

\* frame.collect().write_csv(path) returned
Written(t, table, next) ==
    /\ ~scan_err
    /\ outputs' = [outputs EXCEPT ![t] = Some(table)]
    /\ pc' = next
    /\ UNCHANGED failure

\* collect() or write_csv() raised: the exception leaves run_pipeline
Raised(what) ==
    /\ pc' = "failed"
    /\ failure' = IF scan_err THEN "source" ELSE what
    /\ UNCHANGED outputs

WriteGhost ==
    /\ pc = "w_ghost"
    /\ \/ Written("ghost_audit", ghost_stats, "w_leakage")
       \/ Raised("ghost_audit")
    /\ UNCHANGED <<ingestVars, planVars, dashVars>>

WriteLeakage ==
    /\ pc = "w_leakage"
    /\ \/ Written("leakage_audit", leakage_agg, "w_velocity")
       \/ Raised("leakage_audit")
    /\ UNCHANGED <<ingestVars, planVars, dashVars>>

WriteVelocity ==
    /\ pc = "w_velocity"
    /\ \/ Written("velocity_heatmap", velocity_agg, "w_economics")
       \/ Raised("velocity_heatmap")
    /\ UNCHANGED <<ingestVars, planVars, dashVars>>

WriteEconomics ==
    /\ pc = "w_economics"
    /\ \/ Written("economics", economics_agg, "fetch_weather")
       \/ Raised("economics")
    /\ UNCHANGED <<ingestVars, planVars, dashVars>>

MaxRain == 1

FetchWeather ==
    /\ pc = "fetch_weather"
    /\ \/ /\ \E k \in 0..MaxRain :
                weather_df' = WeatherFrame([d \in 1..DaysIn2025 |-> (d * k) % 4])
          /\ pc' = "w_weather"
          /\ UNCHANGED failure
       \/ /\ pc' = "failed"
          /\ failure' = "fetch_weather"
          /\ UNCHANGED weather_df
    /\ UNCHANGED <<ingestVars, q, ghost_stats, q_clean, leakage_agg,
                   velocity_agg, economics_agg, daily_counts, outputs, dashVars>>

WriteWeather ==
    /\ pc = "w_weather"
    /\ \/ Written("weather_elasticity", InnerJoin(weather_df, daily_counts), "done")
       \/ Raised("weather_elasticity")
    /\ UNCHANGED <<ingestVars, planVars, dashVars>>

-----------------------------------------------------------------------------
(* The plan-building part of run_pipeline on its own: the relation that    *)
(* ingest_and_unify returned is the input.                                 *)

InitWith(rel, outs) ==
    /\ disk = <<>>
    /\ run = 1
    /\ pc = "features"
    /\ month = 0
    /\ returned = <<>>
    /\ yellow_files = <<>>
    /\ green_files = <<>>
    /\ scan_err = FALSE
    /\ q = rel
    /\ ghost_stats = {}
    /\ q_clean = <<>>
    /\ leakage_agg = <<>>
    /\ velocity_agg = {}
    /\ economics_agg = {}
    /\ daily_counts = {}
    /\ weather_df = {}
    /\ outputs = outs
    /\ failure = ""
    /\ cache = [entry |-> FALSE, frames |-> NoOutputs]
    /\ view = "idle"

\* ./outputs is empty: no run has written a table yet.
InitPlan(rel) == InitWith(rel, NoOutputs)

NextPlan ==
    \/ FeatureEngineering
    \/ SpeedFeature
    \/ GhostAudit
    \/ Leakage
    \/ Velocity
    \/ Economics
    \/ Daily

\* Relations of 1..n rows over a set of rows.
Relations(rows, n) == UNION {[1..k -> rows] : k \in 1..n}

(* Audit inputs: trips starting 2025-01-10 08:00 inside the zone, of every *)
(* combination of duration, distance and fare below, nulls included.       *)

MaxAuditRows == 1
AuditStart == 9 * 86400 + 8 * 3600
AuditDurations == {-90, 0, 30, 90, 300, 3600}
AuditDistances == {Null, Some(-1), Some(0), Some(1), Some(10)}
AuditFares == {Null, Some(-5), Some(0), Some(15), Some(25)}

AuditRows ==
    {Row(pt, dt, Some(12), Some(12), dist, fare, Some(30), Some(0), Some(1)) :
        pt \in {Some(AuditStart)},
        dt \in {Null} \cup {Some(AuditStart + d) : d \in AuditDurations},
        dist \in AuditDistances, fare \in AuditFares}
    \cup
    {Row(Null, Some(AuditStart), Some(12), Some(12), dist, fare, Some(30),
         Some(0), Some(1)) : dist \in AuditDistances, fare \in AuditFares}

InitAudit == \E rel \in Relations(AuditRows, MaxAuditRows) : InitPlan(rel)

SpecAudit == InitAudit /\ [][NextPlan]_vars

Classified == pc \notin {"features", "speed", "ghost"}

RECURSIVE SumLen(_)
SumLen(S) == IF S = {} THEN 0
             ELSE LET g == CHOOSE x \in S : TRUE IN g.len + SumLen(S \ {g})

\* Number of rows counted in ghost_stats.
GhostCount == SumLen(ghost_stats)

\* C1: every unified row, nulls included, lands in exactly one of the ghost
\* subset q.filter(ghost_criteria) and the clean subset q.filter(~ghost_criteria).
C1_GhostCleanPartition ==
    Classified =>
        /\ \A i \in DOMAIN q : (i \in GhostIdx(q)) # (i \in CleanIdx(q))
        /\ GhostCount + Len(q_clean) = Len(q)

\* C2: duration_min is the timestamp difference in minutes exactly, with no
\* truncation of the sub-minute part.
C2_DurationExact ==
    pc # "features" =>
        \A i \in DOMAIN q :
            ~IsNull(q[i].pickup_time) /\ ~IsNull(q[i].dropoff_time) =>
                /\ ~IsNull(q[i].duration_min)
                /\ Val(q[i].duration_min) * 60 =
                       Val(q[i].dropoff_time) - Val(q[i].pickup_time)

NonFiniteSpeed(r) == ~IsNull(r.speed_mph) /\ ~IsFinite(Val(r.speed_mph))

\* C3: every row whose duration_min is 0 (speed_mph infinite or NaN) is in the
\* ghost subset, and no row of the clean subset has a non-finite speed_mph.
C3_ZeroDurationIsGhost ==
    Classified =>
        /\ \A i \in DOMAIN q :
              q[i].duration_min = Some(0) /\ NonFiniteSpeed(q[i]) => i \in GhostIdx(q)
        /\ \A j \in DOMAIN q_clean : ~NonFiniteSpeed(q_clean[j])

-----------------------------------------------------------------------------
(* Leakage inputs: ten-minute, one-mile trips (clean) into the zone, one    *)
(* from each pickup_loc outside the zone up to n, unpaid from the          *)
(* locations up to u and paid from the others, followed by up to MaxExtra  *)
(* further trips.                                                          *)

MaxLoc == 12
MaxExtra == 1

Locs == 1..MaxLoc
OutLocs == Locs \ CONGESTION_ZONES
InZone == CHOOSE z \in Locs : z \in CONGESTION_ZONES

Trip(pu, do, sur, dist) ==
    Row(Some(AuditStart), Some(AuditStart + 600), pu, do, Some(dist), Some(10),
        Some(12), sur, Some(1))

RECURSIVE TripsFrom(_, _)
TripsFrom(P, u) ==
    IF P = {} THEN <<>>
    ELSE LET p == CHOOSE x \in P : \A y \in P : x <= y
         IN  <<Trip(Some(p), Some(InZone), IF p <= u THEN Some(0) ELSE Some(2), 1)>>
             \o TripsFrom(P \ {p}, u)

ExtraTrips ==
    {Trip(pu, do, sur, 1) :
        pu \in {Some(1), Some(MaxLoc - 1), Some(InZone)},
        do \in {Some(1), Some(InZone)},
        sur \in {Some(0), Some(2)}}
    \cup {Trip(Null, Some(InZone), Some(0), 1), Trip(Some(1), Some(InZone), Some(0), 0)}

InitLeakage ==
    \E n \in 0..MaxLoc, u \in 0..MaxLoc,
       extra \in {<<>>} \cup Relations(ExtraTrips, MaxExtra) :
        InitPlan(TripsFrom(OutLocs \cap 1..n, u) \o extra)

NextLeakage ==
    \/ FeatureEngineering
    \/ SpeedFeature
    \/ GhostAudit
    \/ Leakage

SpecLeakage == InitLeakage /\ [][NextLeakage]_vars

LeakageBuilt == pc \notin {"features", "speed", "ghost", "leakage"}

\* Clean rows from pickup_loc p that end in the zone, and those among them
\* whose congestion_surcharge is 0.
CrossingFrom(p) ==
    {i \in DOMAIN q_clean :
        /\ q_clean[i].pickup_loc = Some(p)
        /\ ~IsNull(q_clean[i].dropoff_loc)
        /\ Val(q_clean[i].dropoff_loc) \in CONGESTION_ZONES}
UnpaidFrom(p) ==
    {i \in CrossingFrom(p) : q_clean[i].congestion_surcharge = Some(0)}
Listed(p) == \E k \in DOMAIN leakage_agg : leakage_agg[k].pickup_loc = Some(p)

\* C4: the leakage table has at most 10 rows, only pickup_locs outside
\* CONGESTION_ZONES, counts only rows whose dropoff_loc is in CONGESTION_ZONES,
\* has missing_surcharge_count non-increasing from first row to last, and
\* leaves out no pickup_loc with a strictly larger count than one it lists.
C4_LeakageTable ==
    LeakageBuilt =>
        /\ Len(leakage_agg) <= 10
        /\ \A k \in DOMAIN leakage_agg :
              LET g == leakage_agg[k]
              IN  /\ ~IsNull(g.pickup_loc)
                  /\ Val(g.pickup_loc) \notin CONGESTION_ZONES
                  /\ g.total_trips <= Cardinality(CrossingFrom(Val(g.pickup_loc)))
                  /\ g.missing_surcharge_count
                        <= Cardinality(UnpaidFrom(Val(g.pickup_loc)))
        /\ \A k \in 1..(Len(leakage_agg) - 1) :
              leakage_agg[k].missing_surcharge_count
                  >= leakage_agg[k + 1].missing_surcharge_count
        /\ \A p \in OutLocs : \A k \in DOMAIN leakage_agg :
              CrossingFrom(p) # {} /\ ~Listed(p) =>
                  Cardinality(UnpaidFrom(p)) <= leakage_agg[k].missing_surcharge_count

\* The table is full, a pickup_loc with crossing trips is left out of it, and
\* its rows do not all have the same count.
C4_Witness ==
    /\ LeakageBuilt
    /\ Len(leakage_agg) = 10
    /\ \E p \in OutLocs : CrossingFrom(p) # {} /\ ~Listed(p)
    /\ leakage_agg[1].missing_surcharge_count > leakage_agg[10].missing_surcharge_count
    /\ \E k \in DOMAIN leakage_agg :
          leakage_agg[k].total_trips > leakage_agg[k].missing_surcharge_count

-----------------------------------------------------------------------------
(* Inputs of the weather join and of the output sink: clean trips picked   *)
(* up at 01:00 on the last day of 2024, on days of 2025, on the first day  *)
(* of 2026, or with no pickup time.                                        *)

MaxSinkRows == 2

SinkDays == {0, 1, 2, DaysIn2025, DaysIn2025 + 1}

DayTrip(pt) ==
    Row(pt, IF IsNull(pt) THEN Null ELSE Some(Val(pt) + 600), Some(InZone),
        Some(InZone), Some(1), Some(10), Some(12), Some(2), Some(2))

SinkRows == {DayTrip(Null)} \cup {DayTrip(Some((d - 1) * 86400 + 3600)) : d \in SinkDays}

InitSink == \E rel \in Relations(SinkRows, MaxSinkRows) : InitPlan(rel)

NextSink ==
    \/ NextPlan
    \/ WriteGhost
    \/ WriteLeakage
    \/ WriteVelocity
    \/ WriteEconomics
    \/ FetchWeather
    \/ WriteWeather

SpecSink == InitSink /\ [][NextSink]_vars

\* Dates that have a clean trip, and dates of the weather series.
TripDates == {q_clean[i].date : i \in DOMAIN q_clean} \ {Null}
WeatherDates == {w.date : w \in weather_df}

\* C5: weather_elasticity is the inner join on date of the daily trip counts
\* and the weather series: at most min(dates with clean trips, dates of the
\* series) rows, one for each date present in both, none for any other date.
C5_WeatherInnerJoin ==
    outputs["weather_elasticity"] # Null =>
        LET t == Val(outputs["weather_elasticity"])
        IN  /\ Cardinality(t) <= Min(Cardinality(TripDates), Cardinality(WeatherDates))
            /\ \A r \in t : r.date \in TripDates /\ r.date \in WeatherDates
            /\ \A d \in TripDates \cap WeatherDates :
                  /\ Cardinality({r \in t : r.date = d}) = 1
                  /\ \A r \in t : r.date = d =>
                        /\ r.trip_count =
                              Cardinality({i \in DOMAIN q_clean : q_clean[i].date = d})
                        /\ \E w \in weather_df :
                              w.date = d /\ w.precipitation_mm = r.precipitation_mm

\* The table is written with a row, and a clean trip outside 2025 is not in it.
C5_Witness ==
    /\ outputs["weather_elasticity"] # Null
    /\ Val(outputs["weather_elasticity"]) # {}
    /\ \E d \in TripDates : d \notin WeatherDates

\* The table a failure belongs to: a failure of fetch_weather is a failure of
\* the weather_elasticity write.
FailedTable == IF failure = "fetch_weather" THEN "weather_elasticity" ELSE failure

\* C8: the five writes are independent: when the run ends, every table whose
\* own write did not fail has been written.
C8_WritesIndependent ==
    pc \in {"done", "failed"} =>
        \A t \in Tables : t # FailedTable => outputs[t] # Null

-----------------------------------------------------------------------------
(* dashboard.py: a run of the script sets the page up and shows the title, *)
(* then calls load_data and either stops on the error or renders the tabs. *)
(* st.cache_data keeps what load_data returned, the tuple of None          *)
(* included, and later runs of the script get the kept value without       *)
(* load_data being executed.                                               *)

\* The body of load_data: the five read_csv calls inside try/except.
load_data ==
    IF \A t \in Tables : outputs[t] # Null THEN outputs ELSE NoOutputs

\* st.set_page_config, st.title: a (re)run of the script starts.
DashboardTitle ==
    /\ view # "title"
    /\ view' = "title"
    /\ UNCHANGED <<ingestVars, planVars, pc, outputs, failure, cache>>

\* load_data() through the cache, then the test of leakage_df.
DashboardLoad ==
    /\ view = "title"
    /\ LET frames == IF cache.entry THEN cache.frames ELSE load_data
       IN  /\ cache' = [entry |-> TRUE, frames |-> frames]
           /\ view' = IF frames["leakage_audit"] = Null THEN "error" ELSE "tabs"
    /\ UNCHANGED <<ingestVars, planVars, pc, outputs, failure>>

(* The dashboard beside a run of the pipeline; ./outputs holds any subset  *)
(* of the five files, left by earlier runs.                                *)

OldTable(t) == IF t = "leakage_audit" THEN Some(<<>>) ELSE Some({})

InitDashboard ==
    \E present \in SUBSET Tables :
        InitWith(<<DayTrip(Some(3600))>>,
                 [t \in Tables |-> IF t \in present THEN OldTable(t) ELSE Null])

NextDashboard ==
    \/ NextSink
    \/ DashboardTitle
    \/ DashboardLoad

SpecDashboard == InitDashboard /\ [][NextDashboard]_vars

\* C9: a run of the dashboard script shows the 'run the pipeline first' error
\* and stops exactly when one of the five output files is absent; when all five
\* exist it renders the tabs.
C9_MissingOutputMessage ==
    [][DashboardLoad => (view' = "error" <=> \E t \in Tables : outputs[t] = Null)]_vars

-----------------------------------------------------------------------------
(* ingest.py.  The download loop runs over the months 1..LastMonth (12 in  *)
(* the code); a file is a pair <<class, month>>.                           *)

LastMonth == 3
MaxRuns == 2

Months == 1..LastMonth
Files == {"yellow", "green"} \X Months

(* What the remote side serves for a file: one trip of that month, from    *)
(* outside the zone into it, in the column layout of the file's class.     *)
(* Yellow trips carry no congestion_surcharge value.                       *)
YellowRows(m) ==
    <<[tpep_pickup_datetime |-> Some((MonthStarts[m] - 1) * 86400 + 9 * 3600),
       tpep_dropoff_datetime |-> Some((MonthStarts[m] - 1) * 86400 + 9 * 3600 + 600),
       PULocationID |-> Some(1), DOLocationID |-> Some(InZone),
       trip_distance |-> Some(1), fare_amount |-> Some(10),
       total_amount |-> Some(12), congestion_surcharge |-> Null,
       VendorID |-> Some(1)]>>
GreenRows(m) ==
    <<[lpep_pickup_datetime |-> Some((MonthStarts[m] - 1) * 86400 + 18 * 3600),
       lpep_dropoff_datetime |-> Some((MonthStarts[m] - 1) * 86400 + 18 * 3600 + 600),
       PULocationID |-> Some(2), DOLocationID |-> Some(InZone),
       trip_distance |-> Some(1), fare_amount |-> Some(10),
       total_amount |-> Some(12), congestion_surcharge |-> Some(2),
       VendorID |-> Some(2)]>>

FillNull(x, v) == IF IsNull(x) THEN Some(v) ELSE x

\* The two select lists.
ProjectYellow(r) ==
    Row(r.tpep_pickup_datetime, r.tpep_dropoff_datetime, r.PULocationID,
        r.DOLocationID, r.trip_distance, r.fare_amount, r.total_amount,
        FillNull(r.congestion_surcharge, 0), r.VendorID)
ProjectGreen(r) ==
    Row(r.lpep_pickup_datetime, r.lpep_dropoff_datetime, r.PULocationID,
        r.DOLocationID, r.trip_distance, r.fare_amount, r.total_amount,
        FillNull(r.congestion_surcharge, 0), r.VendorID)

\* pl.scan_parquet(files).select(...) over readable files, in list order.
RECURSIVE ScanYellow(_)
ScanYellow(files) ==
    IF files = <<>> THEN <<>>
    ELSE [i \in DOMAIN YellowRows(Head(files)[2]) |->
              ProjectYellow(YellowRows(Head(files)[2])[i])]
         \o ScanYellow(Tail(files))
RECURSIVE ScanGreen(_)
ScanGreen(files) ==
    IF files = <<>> THEN <<>>
    ELSE [i \in DOMAIN GreenRows(Head(files)[2]) |->
              ProjectGreen(GreenRows(Head(files)[2])[i])]
         \o ScanGreen(Tail(files))

PathsOf(files) == {files[i] : i \in DOMAIN files}

(* download_file(url, local_path) called on file f returning ret.  A file  *)
(* that os.path.exists finds is taken as it is.  Otherwise the download    *)
(* either completes; or leaves no file (a non-200 response, or             *)
(* requests.get raising); or raises while the chunks are being written,    *)
(* which leaves the opened file behind with a part of the content.         *)
download_file(f, ret) ==
    \/ /\ disk[f] # "absent"
       /\ ret = TRUE
       /\ UNCHANGED disk
    \/ /\ disk[f] = "absent"
       /\ ret = TRUE
       /\ disk' = [disk EXCEPT ![f] = "complete"]
    \/ /\ disk[f] = "absent"
       /\ ret = FALSE
       /\ UNCHANGED disk
    \/ /\ disk[f] = "absent"
       /\ ret = FALSE
       /\ disk' = [disk EXCEPT ![f] = "partial"]

Answer(ret) == IF ret THEN "true" ELSE "false"

DownloadYellow ==
    /\ pc = "dl_yellow"
    /\ \E ret \in BOOLEAN :
          /\ download_file(<<"yellow", month>>, ret)
          /\ returned' = [returned EXCEPT ![<<"yellow", month>>] = Answer(ret)]
          /\ yellow_files' = IF ret THEN Append(yellow_files, <<"yellow", month>>)
                             ELSE yellow_files
    /\ pc' = "dl_green"
    /\ UNCHANGED <<run, month, green_files, scan_err, planVars, outputs, failure,
                   dashVars>>

DownloadGreen ==
    /\ pc = "dl_green"
    /\ \E ret \in BOOLEAN :
          /\ download_file(<<"green", month>>, ret)
          /\ returned' = [returned EXCEPT ![<<"green", month>>] = Answer(ret)]
          /\ green_files' = IF ret THEN Append(green_files, <<"green", month>>)
                            ELSE green_files
    /\ IF month = LastMonth
       THEN pc' = "scan" /\ UNCHANGED month
       ELSE pc' = "dl_yellow" /\ month' = month + 1
    /\ UNCHANGED <<run, yellow_files, scan_err, planVars, outputs, failure,
                   dashVars>>

(* scan_parquet cannot read an empty list of sources, nor a file that      *)
(* holds only a part of its content (a parquet file ends with its footer). *)
Unreadable ==
    \/ yellow_files = <<>>
    \/ green_files = <<>>
    \/ \E f \in PathsOf(yellow_files) \cup PathsOf(green_files) : disk[f] = "partial"

(* 2-3. The two scans and pl.concat.  An unreadable source makes polars    *)
(* raise either at once, inside ingest_and_unify, or when the plan is      *)
(* first collected, depending on its version.                              *)
Scan ==
    /\ pc = "scan"
    /\ \/ /\ ~Unreadable
          /\ q' = ScanYellow(yellow_files) \o ScanGreen(green_files)
          /\ pc' = "features"
          /\ UNCHANGED <<scan_err, failure>>
       \/ /\ Unreadable
          /\ pc' = "failed"
          /\ failure' = "source"
          /\ UNCHANGED <<scan_err, q>>
       \/ /\ Unreadable
          /\ scan_err' = TRUE
          /\ pc' = "features"
          /\ UNCHANGED <<q, failure>>
    /\ UNCHANGED <<disk, run, month, returned, yellow_files, green_files,
                   ghost_stats, q_clean, leakage_agg, velocity_agg, economics_agg,
                   daily_counts, weather_df, outputs, dashVars>>

\* The pipeline is started again; ./data and ./outputs are as the last run
\* left them.
NewRun ==
    /\ pc \in {"done", "failed"}
    /\ run < MaxRuns
    /\ run' = run + 1
    /\ pc' = "dl_yellow"
    /\ month' = 1
    /\ returned' = [f \in Files |-> "none"]
    /\ yellow_files' = <<>>
    /\ green_files' = <<>>
    /\ scan_err' = FALSE
    /\ q' = <<>>
    /\ ghost_stats' = {}
    /\ q_clean' = <<>>
    /\ leakage_agg' = <<>>
    /\ velocity_agg' = {}
    /\ economics_agg' = {}
    /\ daily_counts' = {}
    /\ weather_df' = {}
    /\ failure' = ""
    /\ UNCHANGED <<disk, outputs, dashVars>>

\* A fresh checkout: ./data and ./outputs are empty.
InitIngest ==
    /\ disk = [f \in Files |-> "absent"]
    /\ run = 1
    /\ pc = "dl_yellow"
    /\ month = 1
    /\ returned = [f \in Files |-> "none"]
    /\ yellow_files = <<>>
    /\ green_files = <<>>
    /\ scan_err = FALSE
    /\ q = <<>>
    /\ ghost_stats = {}
    /\ q_clean = <<>>
    /\ leakage_agg = <<>>
    /\ velocity_agg = {}
    /\ economics_agg = {}
    /\ daily_counts = {}
    /\ weather_df = {}
    /\ outputs = NoOutputs
    /\ failure = ""
    /\ cache = [entry |-> FALSE, frames |-> NoOutputs]
    /\ view = "idle"

NextIngest ==
    \/ DownloadYellow
    \/ DownloadGreen
    \/ Scan
    \/ NextSink
    \/ NewRun

SpecIngest == InitIngest /\ [][NextIngest]_vars

Ingested == pc \notin {"dl_yellow", "dl_green", "scan"}

\* The files of a class for which download_file returned True, by month.
RECURSIVE Available(_, _)
Available(c, m) ==
    IF m = 0 THEN <<>>
    ELSE IF returned[<<c, m>>] = "true" THEN Append(Available(c, m - 1), <<c, m>>)
    ELSE Available(c, m - 1)

\* The sources did not stop the run: neither ingest_and_unify nor a collect()
\* raised because of them.
SourcesRead == failure # "source" /\ ~scan_err

\* C6: when download_file returned False for a file (and True for another),
\* exactly that path is left out of its class's list, every available file is
\* kept, and no error comes from the sources: the run goes on over the rows of
\* the available files.
C6_MissingMonthTolerated ==
    Ingested /\ (\E f \in Files : returned[f] = "false")
             /\ (\E f \in Files : returned[f] = "true") =>
        /\ yellow_files = Available("yellow", LastMonth)
        /\ green_files = Available("green", LastMonth)
        /\ SourcesRead
        /\ pc = "features" =>
              q = ScanYellow(yellow_files) \o ScanGreen(green_files)

\* C7: with the file list of one class empty after the download loop and the
\* other not, ingest_and_unify succeeds and returns exactly the rows of the
\* other class.
C7_EmptyClassTolerated ==
    Ingested /\ ((yellow_files = <<>>) # (green_files = <<>>)) =>
        /\ SourcesRead
        /\ pc = "features" =>
              q = ScanYellow(yellow_files) \o ScanGreen(green_files)

\* C10: in every run, a path is in yellow_files or green_files, and
\* download_file returned True for it, only if the file holds a complete
\* download.
C10_ListedFilesComplete ==
    \A f \in Files :
        f \in PathsOf(yellow_files) \cup PathsOf(green_files) \/ returned[f] = "true"
            => disk[f] = "complete"

====
